---- MODULE Spec2Model ----
(***************************************************************************)
(* Vinyl-RN: the collection store (src/utils/api.ts) over the AsyncStorage *)
(* slot "vinyl_records", and the App component that calls it.              *)
(*                                                                         *)
(* Every api.* function is an async function: it runs up to its first      *)
(* await (AsyncStorage.getItem), is resumed with the outcome of the read,  *)
(* runs up to AsyncStorage.setItem, and is resumed with the outcome of the *)
(* write. Calls that are in flight interleave at these awaits.             *)
(***************************************************************************)
EXTENDS Integers, Sequences, FiniteSets, TLC

\* ------------------------------------------------------------------ bounds
MaxCalls == 2       \* calls of api.* / App handlers issued in one behaviour
MaxClock == 1       \* largest value Date.now() takes
NumSuffixes == 2    \* distinct values of Math.random().toString(36).substr(2, 9)
NumTasks == 2       \* async calls in flight at the same time
MaxRequests == 2    \* fetch calls DiscogsAPI makes in one behaviour

\* ------------------------------------------------------------ JS values
\* Field values are strings; the two JavaScript non-values are tokens.
Undefined == "<undefined>"
Null == "<null>"

MandatoryFields == {"artistName", "albumName", "serialNumber", "matrixRunout"}
OptionalFields ==
    {"year", "country", "genre", "style", "label", "format", "discogsId", "discogsUrl"}
VinylDataFields == MandatoryFields \cup OptionalFields
\* id is a string, createdAt and updatedAt are numbers: they are set by the
\* store on every record and are never undefined.
StoreFields == {"id", "createdAt", "updatedAt"}

\* obj.f : reading a property that the object does not have gives undefined
Get(obj, f) == IF f \in DOMAIN obj THEN obj[f] ELSE Undefined

\* a || b
Falsy(v) == v \in {Undefined, Null, ""}
OrElse(v, d) == IF Falsy(v) THEN d ELSE v

\* { ...a, ...b }
Spread(a, b) ==
    [f \in (DOMAIN a) \cup (DOMAIN b) |-> IF f \in DOMAIN b THEN b[f] ELSE a[f]]

\* ------------------------------------------------------------------ ids
Suffixes == 1..NumSuffixes
Times == 0..MaxClock
\* `record_${now}_${suffix}`
MakeId(now, suffix) == <<now, suffix>>
\* an id string that createRecord never produced
ForeignId == <<-1, 0>>

\* ------------------------------------------------------- inputs (bounded)
\* Arguments of createRecord: Partial<VinylData> & { imageUrl?: string }
CreateInputs ==
    { [artistName |-> "A", imageUrl |-> Undefined],
      [albumName |-> "B", year |-> "1959", imageUrl |-> "file://cover"] }
\* Arguments of updateRecord: Partial<VinylData>. With TypeScript's optional
\* properties { artistName: undefined } is a Partial<VinylData>.
UpdateInputs ==
    { [year |-> "1999"],
      [artistName |-> Undefined] }

\* --------------------------------------------------------- the backing slot
\* What AsyncStorage holds under STORAGE_KEY: nothing (getItem gives null), the
\* empty string, a string that is not JSON, the JSON text of null, the JSON
\* text of an object, or the JSON text of an array (items: its elements).
SlotKinds == {"missing", "empty", "garbage", "jsonNull", "jsonObject", "array"}
StoredText(kind) == [kind |-> kind, items |-> <<>>]
StoredArray(items) == [kind |-> "array", items |-> items]

\* JSON.stringify of one record: a property whose value is undefined is left
\* out of the text.
StringifyRecord(r) ==
    LET kept == {f \in DOMAIN r : f \in StoreFields \/ r[f] # Undefined}
    IN  [f \in kept |-> r[f]]

\* JSON.stringify(records)
JSONStringify(records) ==
    StoredArray([i \in 1..Len(records) |-> StringifyRecord(records[i])])

\* JSON.parse(stored) for a stored text that is JSON: the value it denotes
JSONParse(stored) == [kind |-> stored.kind, items |-> stored.items]

\* the value of an empty array literal []
EmptyArray == [kind |-> "array", items |-> <<>>]

\* getStoredRecords(): readOk is the outcome of AsyncStorage.getItem
GetStoredRecordsMutantEmpty(stored, readOk) == EmptyArray
GetStoredRecordsMutantNoCatch(stored, readOk) ==
    IF ~readOk THEN StoredText("garbage") ELSE JSONParse(stored)
GetStoredRecords(stored, readOk) ==
    IF ~readOk THEN EmptyArray                                 \* catch
    ELSE IF stored.kind \in {"missing", "empty"} THEN EmptyArray  \* stored falsy
    ELSE IF stored.kind = "garbage" THEN EmptyArray            \* parse throws: catch
    ELSE JSONParse(stored)

\* Array methods exist on arrays only: records.push / find / findIndex / filter
\* on null or on a plain object throw a TypeError.
IsArray(v) == v.kind = "array"

\* records.findIndex(r => r.id === id), 0 standing for -1
FindIndex(items, id) ==
    IF \E i \in 1..Len(items) : items[i].id = id
    THEN CHOOSE i \in 1..Len(items) :
            /\ items[i].id = id
            /\ \A j \in 1..(i - 1) : items[j].id # id
    ELSE 0

\* records.filter(r => r.id !== id)
FilterOut(items, id) == SelectSeq(items, LAMBDA r : r.id # id)

\* the object literal of createRecord
NewRecord(record, now, suffix) ==
    [ id           |-> MakeId(now, suffix),
      artistName   |-> OrElse(Get(record, "artistName"), ""),
      albumName    |-> OrElse(Get(record, "albumName"), ""),
      serialNumber |-> OrElse(Get(record, "serialNumber"), ""),
      matrixRunout |-> OrElse(Get(record, "matrixRunout"), ""),
      imageUrl     |-> OrElse(Get(record, "imageUrl"), Null),
      year         |-> Get(record, "year"),
      country      |-> Get(record, "country"),
      genre        |-> Get(record, "genre"),
      style        |-> Get(record, "style"),
      label        |-> Get(record, "label"),
      format       |-> Get(record, "format"),
      discogsId    |-> Get(record, "discogsId"),
      discogsUrl   |-> Get(record, "discogsUrl"),
      createdAt    |-> now,
      updatedAt    |-> now ]

\* { ...records[index], ...updates, updatedAt: Date.now() }
MergeUpdateMutantStampsCreation(existing, updates, now) ==
    Spread(Spread(existing, updates), [createdAt |-> now, updatedAt |-> now])
MergeUpdateMutantKeepOld(existing, updates, now) ==
    Spread(Spread(updates, existing), [updatedAt |-> now])
MergeUpdate(existing, updates, now) ==
    Spread(Spread(existing, updates), [updatedAt |-> now])

\* ------------------------------------------------------------------- state
VARIABLES
    slot,              \* AsyncStorage's value under STORAGE_KEY
    clock,             \* the last value Date.now() returned
    tasks,             \* the async calls in flight
    last,              \* the api call that settled last, with its outcome
    nCalls,            \* calls issued so far
    records,           \* App: useState records
    isSaving,          \* App: useState isSaving
    isLoadingRecords,  \* App: useState isLoadingRecords
    extractedData,     \* App: useState extractedData
    uploadedImage,     \* App: useState uploadedImage
    isProcessing,      \* App: useState isProcessing
    ocrTimers,         \* App: setTimeout callbacks of handleImageUpload pending
    assigned,          \* history: the ids createRecord has assigned
    abs,               \* history: the calls settled so far, applied one by one
    overlap,           \* history: a mutation was issued while another was in flight
    ioFailed,          \* history: a getItem or setItem failed
    clockSetBack,      \* history: Date.now() went backwards
    token,             \* DiscogsAPI: private token
    httpRequests,      \* the fetch calls DiscogsAPI has made
    isConfigured,      \* DiscogsSearchScreen: useState isConfigured
    isSearching,       \* DiscogsSearchScreen: useState isSearching
    results,           \* DiscogsSearchScreen: useState results
    prompts            \* DiscogsSearchScreen: 'Add to Collection' alerts open

appVars == <<records, isSaving, isLoadingRecords, extractedData, uploadedImage,
             isProcessing, ocrTimers>>
histVars == <<assigned, abs, overlap, ioFailed, clockSetBack>>
lookupVars == <<token, httpRequests, isConfigured, isSearching, results, prompts>>
vars == <<slot, clock, tasks, last, nCalls, records, isSaving, isLoadingRecords,
          extractedData, uploadedImage, isProcessing, ocrTimers, assigned, abs,
          overlap, ioFailed, clockSetBack, token, httpRequests, isConfigured,
          isSearching, results, prompts>>

TaskIds == 1..NumTasks
NoRecord == [id |-> ForeignId]
NoArg == [none |-> Undefined]
\* extractedData === null
NoData == [none |-> Null]

IdleTask ==
    [h |-> "none", op |-> "none", pc |-> "idle", id |-> ForeignId, arg |-> NoArg,
     local |-> <<>>, rec |-> NoRecord]
NoCall ==
    [op |-> "none", id |-> ForeignId, res |-> "none",
     rec |-> NoRecord, value |-> EmptyArray]

Mutations == {"create", "update", "delete"}
MutationInFlight(t) == tasks[t].op \in Mutations /\ tasks[t].pc \in {"read", "write"}
\* a call takes the first free task
FreeTask(t) ==
    /\ tasks[t].pc = "idle"
    /\ \A u \in TaskIds : u < t => tasks[u].pc # "idle"

\* The Discogs client without a token and its screen, neither of them used.
LookupUnused ==
    /\ token = Null
    /\ httpRequests = 0
    /\ isConfigured = FALSE
    /\ isSearching = FALSE
    /\ results = <<>>
    /\ prompts = {}

Init ==
    /\ LookupUnused
    /\ slot \in {StoredText(k) : k \in SlotKinds \ {"array"}}
    /\ clock = 0
    /\ tasks = [t \in TaskIds |-> IdleTask]
    /\ last = NoCall
    /\ nCalls = 0
    /\ records = EmptyArray
    /\ isSaving = FALSE
    /\ isLoadingRecords = FALSE
    /\ extractedData = NoData
    /\ uploadedImage = Null
    /\ isProcessing = FALSE
    /\ ocrTimers = 0
    /\ assigned = {}
    /\ abs = <<>>
    /\ overlap = FALSE
    /\ ioFailed = FALSE
    /\ clockSetBack = FALSE

\* ----------------------------------------------------------------- the clock
\* Date.now() reads the wall clock: the value is the last one read, a later
\* one, or an earlier one when the system clock was set back in between.
ReadsBackwards(now) == now < clock

\* ------------------------------------------------- history of settled calls
\* The record as it is persisted: its defined properties.
DefinedPart(r) ==
    [f \in {g \in DOMAIN r : g \in StoreFields \/ r[g] # Undefined} |-> r[f]]

\* One call applied to a sequence as a single step: create appends the record
\* it returned, update replaces the first record of that id by the record it
\* returned, delete removes the records of that id.
ApplyCall(seq, op, id, rec) ==
    IF op = "create" THEN Append(seq, DefinedPart(rec))
    ELSE IF op = "update"
    THEN [i \in 1..Len(seq) |->
            IF seq[i].id = id /\ (\A j \in 1..(i - 1) : seq[j].id # id)
            THEN DefinedPart(rec) ELSE seq[i]]
    ELSE IF op = "delete" THEN SelectSeq(seq, LAMBDA r : r.id # id)
    ELSE seq

\* ------------------------------------------------------- resuming the caller
\* setRecords(data || [])
DataOrEmptyMutantAlwaysEmpty(value) == EmptyArray
DataOrEmpty(value) == IF value.kind = "jsonNull" THEN EmptyArray ELSE value

\* What the App handler that awaited the api call does when the call settles.
\*   handleSaveRecord / handleSelectRelease / handleDeleteRecord after the
\*   mutation: on success Alert, (handleReset,) loadRecords() up to its await;
\*   on failure catch and finally.
\*   loadRecords after getRecords: setRecords, setIsLoadingRecords(false), and
\*   the finally of the handler that awaited it.
AppResume(tk, res, value) ==
    IF tk.h = "api" THEN UNCHANGED appVars
    ELSE IF tk.op = "list"
    THEN /\ records' = DataOrEmpty(value)
         /\ isLoadingRecords' = FALSE
         /\ isSaving' = IF tk.h \in {"save", "select"} THEN FALSE ELSE isSaving
         /\ UNCHANGED <<extractedData, uploadedImage, isProcessing, ocrTimers>>
    ELSE IF res = "ok"
    THEN /\ isLoadingRecords' = TRUE
         /\ IF tk.h = "save"
            THEN /\ uploadedImage' = Null
                 /\ extractedData' = NoData
                 /\ isProcessing' = FALSE
            ELSE UNCHANGED <<uploadedImage, extractedData, isProcessing>>
         /\ UNCHANGED <<records, isSaving, ocrTimers>>
    ELSE /\ isSaving' = IF tk.h \in {"save", "select"} THEN FALSE ELSE isSaving
         /\ UNCHANGED <<records, isLoadingRecords, extractedData, uploadedImage,
                        isProcessing, ocrTimers>>

\* The api call of task t settles: resolves (res = "ok") or rejects.
Settle(t, res, rec, value) ==
    LET tk == tasks[t]
        reloads == tk.h # "api" /\ tk.op \in Mutations /\ res = "ok"
    IN  /\ last' = [op |-> tk.op, id |-> tk.id, res |-> res,
                    rec |-> rec, value |-> value]
        /\ abs' = IF overlap \/ ioFailed' THEN <<>>
                  ELSE IF res = "ok" THEN ApplyCall(abs, tk.op, tk.id, rec)
                  ELSE abs
        /\ tasks' = [tasks EXCEPT ![t] =
                        IF reloads
                        THEN [tk EXCEPT !.op = "list", !.pc = "read",
                                        !.local = <<>>, !.rec = NoRecord]
                        ELSE IdleTask]
        /\ AppResume(tk, res, value)

\* --------------------------------------------------------------- api calls
\* An async function runs synchronously up to its first await, which in every
\* api function is AsyncStorage.getItem inside getStoredRecords.
Issue(t, h, op, id, arg) ==
    /\ nCalls < MaxCalls
    /\ FreeTask(t)
    /\ tasks' = [tasks EXCEPT ![t] =
                    [h |-> h, op |-> op, pc |-> "read", id |-> id, arg |-> arg,
                     local |-> <<>>, rec |-> NoRecord]]
    /\ nCalls' = nCalls + 1
    /\ overlap' = (overlap \/ (op \in Mutations /\ \E u \in TaskIds : MutationInFlight(u)))
    /\ abs' = IF overlap' THEN <<>> ELSE abs
    /\ UNCHANGED <<slot, clock, last, assigned, ioFailed, clockSetBack>>

KnownIds == assigned \cup {ForeignId}

\* Math.random().toString(36).substr(2, 9): any suffix, one drawn before
\* included. The suffixes are interchangeable, so a suffix not drawn before is
\* represented by the least one.
DrawnSuffixes == {id[2] : id \in assigned}
RandomSuffixes == {s \in Suffixes : \A r \in 1..(s - 1) : r \in DrawnSuffixes}

CallGetRecords(t) ==
    Issue(t, "api", "list", ForeignId, NoArg) /\ UNCHANGED appVars
CallGetRecord(t, id) ==
    Issue(t, "api", "get", id, NoArg) /\ UNCHANGED appVars
CallCreateRecord(t, record) ==
    Issue(t, "api", "create", ForeignId, record) /\ UNCHANGED appVars
CallUpdateRecord(t, id, updates) ==
    Issue(t, "api", "update", id, updates) /\ UNCHANGED appVars
CallDeleteRecord(t, id) ==
    Issue(t, "api", "delete", id, NoArg) /\ UNCHANGED appVars

\* ------------------------------------------- resumed after AsyncStorage.getItem
\* getRecords: return getStoredRecords()
GetRecordsRead(t, readOk) ==
    /\ tasks[t].pc = "read" /\ tasks[t].op = "list"
    /\ ioFailed' = (ioFailed \/ ~readOk)
    /\ Settle(t, "ok", NoRecord, GetStoredRecords(slot, readOk))
    /\ UNCHANGED <<slot, clock, nCalls, assigned, overlap, clockSetBack>>

\* getRecord, given what getStoredRecords() returned:
\* records.find(r => r.id === id), throw 'Record not found' if there is none
GetRecord(v, id) ==
    LET i == FindIndex(v.items, id)
    IN  IF ~IsArray(v) THEN [res |-> "typeerror", rec |-> NoRecord]
        ELSE IF i = 0 THEN [res |-> "notfound", rec |-> NoRecord]
        ELSE [res |-> "ok", rec |-> v.items[i]]

GetRecordRead(t, readOk) ==
    /\ tasks[t].pc = "read" /\ tasks[t].op = "get"
    /\ ioFailed' = (ioFailed \/ ~readOk)
    /\ LET got == GetRecord(GetStoredRecords(slot, readOk), tasks[t].id)
       IN  Settle(t, got.res, got.rec, EmptyArray)
    /\ UNCHANGED <<slot, clock, nCalls, assigned, overlap, clockSetBack>>

\* createRecord: now, the new record, records.push, saveRecords up to setItem
CreateRecordRead(t, readOk, now, suffix) ==
    /\ tasks[t].pc = "read" /\ tasks[t].op = "create"
    /\ ioFailed' = (ioFailed \/ ~readOk)
    /\ clock' = now
    /\ clockSetBack' = (clockSetBack \/ ReadsBackwards(now))
    /\ LET v == GetStoredRecords(slot, readOk)
           newRecord == NewRecord(tasks[t].arg, now, suffix)
       IN  IF ~IsArray(v)
           THEN /\ Settle(t, "typeerror", NoRecord, EmptyArray)
                /\ UNCHANGED assigned
           ELSE /\ tasks' = [tasks EXCEPT ![t].pc = "write",
                                          ![t].local = Append(v.items, newRecord),
                                          ![t].rec = newRecord]
                /\ assigned' = assigned \cup {newRecord.id}
                /\ abs' = IF ioFailed' THEN <<>> ELSE abs
                /\ UNCHANGED <<last, appVars>>
    /\ UNCHANGED <<slot, nCalls, overlap>>

\* updateRecord: findIndex, throw if -1, the merge, saveRecords up to setItem
UpdateRecordRead(t, readOk, now) ==
    /\ tasks[t].pc = "read" /\ tasks[t].op = "update"
    /\ ioFailed' = (ioFailed \/ ~readOk)
    /\ LET v == GetStoredRecords(slot, readOk)
           index == FindIndex(v.items, tasks[t].id)
       IN  IF ~IsArray(v)
           THEN /\ Settle(t, "typeerror", NoRecord, EmptyArray)
                /\ UNCHANGED <<clock, clockSetBack>>
           ELSE IF index = 0
           THEN /\ Settle(t, "notfound", NoRecord, EmptyArray)
                /\ UNCHANGED <<clock, clockSetBack>>
           ELSE LET merged == MergeUpdate(v.items[index], tasks[t].arg, now)
                IN  /\ tasks' = [tasks EXCEPT
                                    ![t].pc = "write",
                                    ![t].local = [v.items EXCEPT ![index] = merged],
                                    ![t].rec = merged]
                    /\ clock' = now
                    /\ clockSetBack' = (clockSetBack \/ ReadsBackwards(now))
                    /\ abs' = IF ioFailed' THEN <<>> ELSE abs
                    /\ UNCHANGED <<last, appVars>>
    /\ UNCHANGED <<slot, nCalls, assigned, overlap>>

\* deleteRecord: records.filter, saveRecords up to setItem
DeleteRecordRead(t, readOk) ==
    /\ tasks[t].pc = "read" /\ tasks[t].op = "delete"
    /\ ioFailed' = (ioFailed \/ ~readOk)
    /\ LET v == GetStoredRecords(slot, readOk)
       IN  IF ~IsArray(v) THEN Settle(t, "typeerror", NoRecord, EmptyArray)
           ELSE /\ tasks' = [tasks EXCEPT ![t].pc = "write",
                                          ![t].local = FilterOut(v.items, tasks[t].id)]
                /\ abs' = IF ioFailed' THEN <<>> ELSE abs
                /\ UNCHANGED <<last, appVars>>
    /\ UNCHANGED <<slot, clock, nCalls, assigned, overlap, clockSetBack>>

\* ------------------------------------------- resumed after AsyncStorage.setItem
\* saveRecords: the write replaces the slot, or fails and leaves it as it was;
\* then the api function returns its record, or rethrows 'Failed to save data'.
\* a write that appends what it built to what the slot holds by then
SaveRecordsDoneMutantMerges(t, writeOk) ==
    /\ tasks[t].pc = "write"
    /\ ioFailed' = (ioFailed \/ ~writeOk)
    /\ IF writeOk
       THEN /\ slot' = IF tasks[t].op = "create" /\ slot.kind = "array"
                       THEN JSONStringify(Append(slot.items, tasks[t].rec))
                       ELSE JSONStringify(tasks[t].local)
            /\ Settle(t, "ok", tasks[t].rec, EmptyArray)
       ELSE /\ slot' = slot
            /\ Settle(t, "savefail", NoRecord, EmptyArray)
    /\ UNCHANGED <<clock, nCalls, assigned, overlap, clockSetBack>>
SaveRecordsDoneMutantTornWrite(t, writeOk) ==
    /\ tasks[t].pc = "write"
    /\ ioFailed' = (ioFailed \/ ~writeOk)
    /\ slot' = JSONStringify(tasks[t].local)
    /\ IF writeOk THEN Settle(t, "ok", tasks[t].rec, EmptyArray)
       ELSE Settle(t, "savefail", NoRecord, EmptyArray)
    /\ UNCHANGED <<clock, nCalls, assigned, overlap, clockSetBack>>
SaveRecordsDone(t, writeOk) ==
    /\ tasks[t].pc = "write"
    /\ ioFailed' = (ioFailed \/ ~writeOk)
    /\ IF writeOk
       THEN /\ slot' = JSONStringify(tasks[t].local)
            /\ Settle(t, "ok", tasks[t].rec, EmptyArray)
       ELSE /\ slot' = slot
            /\ Settle(t, "savefail", NoRecord, EmptyArray)
    /\ UNCHANGED <<clock, nCalls, assigned, overlap, clockSetBack>>

Next ==
    \/ \E t \in TaskIds : CallGetRecords(t) /\ UNCHANGED lookupVars
    \/ \E t \in TaskIds, id \in KnownIds : CallGetRecord(t, id) /\ UNCHANGED lookupVars
    \/ \E t \in TaskIds, x \in CreateInputs : CallCreateRecord(t, x) /\ UNCHANGED lookupVars
    \/ \E t \in TaskIds, id \in KnownIds, u \in UpdateInputs : CallUpdateRecord(t, id, u) /\ UNCHANGED lookupVars
    \/ \E t \in TaskIds, id \in KnownIds : CallDeleteRecord(t, id) /\ UNCHANGED lookupVars
    \/ \E t \in TaskIds, ok \in BOOLEAN : GetRecordsRead(t, ok) /\ UNCHANGED lookupVars
    \/ \E t \in TaskIds, ok \in BOOLEAN : GetRecordRead(t, ok) /\ UNCHANGED lookupVars
    \/ \E t \in TaskIds, ok \in BOOLEAN, now \in Times, sfx \in RandomSuffixes :
            CreateRecordRead(t, ok, now, sfx) /\ UNCHANGED lookupVars
    \/ \E t \in TaskIds, ok \in BOOLEAN, now \in Times : UpdateRecordRead(t, ok, now) /\ UNCHANGED lookupVars
    \/ \E t \in TaskIds, ok \in BOOLEAN : DeleteRecordRead(t, ok) /\ UNCHANGED lookupVars
    \/ \E t \in TaskIds, ok \in BOOLEAN : SaveRecordsDone(t, ok) /\ UNCHANGED lookupVars

Spec == Init /\ [][Next]_vars

\* ------------------------------------------- a collection persisted before
\* What earlier createRecord calls have left in the slot (bounded): two records
\* and three records, the three with two of them created in the same
\* millisecond with the same random suffix.
PersistedBefore ==
    LET first  == NewRecord([artistName |-> "A", imageUrl |-> Undefined], 0, 1)
        second == NewRecord([albumName |-> "B", year |-> "1959",
                             imageUrl |-> "file://cover"], 0, 2)
        twin   == NewRecord([albumName |-> "B", year |-> "1959",
                             imageUrl |-> "file://cover"], 0, 1)
    IN  { <<first, second>>, <<first, twin, second>> }

InitStored ==
    /\ LookupUnused
    /\ \E seq \in PersistedBefore :
          /\ slot = JSONStringify(seq)
          /\ assigned = {seq[i].id : i \in 1..Len(seq)}
          /\ abs = JSONStringify(seq).items
    /\ clock = 0
    /\ tasks = [t \in TaskIds |-> IdleTask]
    /\ last = NoCall
    /\ nCalls = 0
    /\ records = EmptyArray
    /\ isSaving = FALSE
    /\ isLoadingRecords = FALSE
    /\ extractedData = NoData
    /\ uploadedImage = Null
    /\ isProcessing = FALSE
    /\ ocrTimers = 0
    /\ overlap = FALSE
    /\ ioFailed = FALSE
    /\ clockSetBack = FALSE

NextStored ==
    \/ \E t \in TaskIds, id \in KnownIds, u \in UpdateInputs : CallUpdateRecord(t, id, u) /\ UNCHANGED lookupVars
    \/ \E t \in TaskIds, ok \in BOOLEAN, now \in Times : UpdateRecordRead(t, ok, now) /\ UNCHANGED lookupVars
    \/ \E t \in TaskIds, ok \in BOOLEAN : SaveRecordsDone(t, ok) /\ UNCHANGED lookupVars

SpecStored == InitStored /\ [][NextStored]_vars

\* ===================================================================== App
\* DiscogsReleaseDetails accepted on the search screen (bounded)
Releases ==
    { [ id |-> "1", title |-> "Miles Davis - Kind of Blue",
        artists |-> <<[name |-> "Miles Davis"]>>,
        labels |-> <<[name |-> "Columbia", catno |-> "CL 1355"]>>,
        formats |-> <<[name |-> "Vinyl"]>>,
        identifiers |-> <<[type |-> "Barcode", value |-> "0074646493526"],
                          [type |-> "Matrix / Runout", value |-> "XLP 47324"]>>,
        images |-> <<[uri |-> "", uri150 |-> "https://img/150"]>>,
        year |-> "1959", genres |-> "Jazz", uri |-> "https://discogs/1" ],
      [ id |-> "2", title |-> "", artists |-> <<>>, labels |-> <<>>,
        formats |-> <<>> ] }
\* VinylData entered on the OCR screen (bounded)
DataInputs ==
    { [artistName |-> "A", albumName |-> "B", serialNumber |-> "", matrixRunout |-> ""] }
ImageInputs == {"file://photo"}

\* an element that is not there: arr?.[0] of an absent or empty array
NoObject == [none |-> Undefined]
\* release.f?.[0]
First(release, f) ==
    IF f \in DOMAIN release /\ Len(release[f]) >= 1 THEN release[f][1] ELSE NoObject
\* release.identifiers?.find(id => id.type === 'Matrix / Runout')
FindMatrixRunout(release) ==
    IF "identifiers" \in DOMAIN release
       /\ \E i \in 1..Len(release.identifiers) :
             release.identifiers[i].type = "Matrix / Runout"
    THEN LET i == CHOOSE i \in 1..Len(release.identifiers) :
                    /\ release.identifiers[i].type = "Matrix / Runout"
                    /\ \A j \in 1..(i - 1) :
                          release.identifiers[j].type # "Matrix / Runout"
         IN  release.identifiers[i]
    ELSE NoObject

\* handleSelectRelease: vinylData
VinylDataOfMutantSwapsLabel(release) ==
    [ artistName   |-> OrElse(Get(First(release, "artists"), "name"), ""),
      albumName    |-> OrElse(Get(release, "title"), ""),
      serialNumber |-> OrElse(Get(First(release, "labels"), "name"), ""),
      matrixRunout |-> OrElse(Get(First(release, "identifiers"), "value"), ""),
      year         |-> Get(release, "year"),
      country      |-> Get(release, "country"),
      genre        |-> Get(release, "genres"),
      style        |-> Get(release, "styles"),
      label        |-> Get(First(release, "labels"), "catno"),
      format       |-> Get(First(release, "formats"), "name"),
      discogsId    |-> Get(release, "id"),
      discogsUrl   |-> Get(release, "uri") ]
VinylDataOf(release) ==
    [ artistName   |-> OrElse(Get(First(release, "artists"), "name"), ""),
      albumName    |-> OrElse(Get(release, "title"), ""),
      serialNumber |-> OrElse(Get(First(release, "labels"), "catno"), ""),
      matrixRunout |-> OrElse(Get(FindMatrixRunout(release), "value"), ""),
      year         |-> Get(release, "year"),
      country      |-> Get(release, "country"),
      genre        |-> Get(release, "genres"),
      style        |-> Get(release, "styles"),
      label        |-> Get(First(release, "labels"), "name"),
      format       |-> Get(First(release, "formats"), "name"),
      discogsId    |-> Get(release, "id"),
      discogsUrl   |-> Get(release, "uri") ]
\* handleSelectRelease: coverImageUrl
CoverImageUrl(release) ==
    OrElse(Get(First(release, "images"), "uri"),
           OrElse(Get(First(release, "images"), "uri150"), Undefined))

\* The App after mount: useEffect has called loadRecords(), which set
\* isLoadingRecords and awaits getRecords().
InitApp ==
    /\ LookupUnused
    /\ slot \in {StoredText(k) : k \in SlotKinds \ {"array"}}
    /\ clock = 0
    /\ tasks = [t \in TaskIds |->
                  IF t = 1 THEN [IdleTask EXCEPT !.h = "load", !.op = "list", !.pc = "read"]
                  ELSE IdleTask]
    /\ last = NoCall
    /\ nCalls = 0
    /\ records = EmptyArray
    /\ isSaving = FALSE
    /\ isLoadingRecords = TRUE
    /\ extractedData = NoData
    /\ uploadedImage = Null
    /\ isProcessing = FALSE
    /\ ocrTimers = 0
    /\ assigned = {}
    /\ abs = <<>>
    /\ overlap = FALSE
    /\ ioFailed = FALSE
    /\ clockSetBack = FALSE

UserActs == nCalls < MaxCalls
storeRest == <<slot, clock, tasks, last, assigned, abs, overlap, ioFailed, clockSetBack>>

\* handleImageUpload: the setTimeout callback is OcrTimerFires
HandleImageUpload(imageUrl) ==
    /\ UserActs
    /\ nCalls' = nCalls + 1
    /\ uploadedImage' = imageUrl
    /\ isProcessing' = TRUE
    /\ ocrTimers' = ocrTimers + 1
    /\ UNCHANGED <<records, isSaving, isLoadingRecords, extractedData, storeRest>>

OcrTimerFires ==
    /\ ocrTimers > 0
    /\ ocrTimers' = ocrTimers - 1
    /\ extractedData' = NoData
    /\ isProcessing' = FALSE
    /\ UNCHANGED <<records, isSaving, isLoadingRecords, uploadedImage, nCalls, storeRest>>

HandleReset ==
    /\ UserActs
    /\ nCalls' = nCalls + 1
    /\ uploadedImage' = Null
    /\ extractedData' = NoData
    /\ isProcessing' = FALSE
    /\ UNCHANGED <<records, isSaving, isLoadingRecords, ocrTimers, storeRest>>

HandleDataUpdate(data) ==
    /\ UserActs
    /\ nCalls' = nCalls + 1
    /\ extractedData' = data
    /\ UNCHANGED <<records, isSaving, isLoadingRecords, uploadedImage, isProcessing,
                   ocrTimers, storeRest>>

\* loadRecords, called by pull-to-refresh (onRefresh)
LoadRecords(t) ==
    /\ Issue(t, "load", "list", ForeignId, NoArg)
    /\ isLoadingRecords' = TRUE
    /\ UNCHANGED <<records, isSaving, extractedData, uploadedImage, isProcessing, ocrTimers>>

\* handleSaveRecord. The Save button is rendered while extractedData is set and
\* is disabled while isSaving (OCRScreen, DataDisplaySection).
HandleSaveRecord(t) ==
    /\ extractedData # NoData
    /\ ~isSaving
    /\ IF extractedData = NoData
       THEN /\ UserActs
            /\ nCalls' = nCalls + 1
            /\ UNCHANGED <<appVars, storeRest>>
       ELSE /\ Issue(t, "save", "create", ForeignId,
                     Spread(extractedData, [imageUrl |-> OrElse(uploadedImage, Undefined)]))
            /\ isSaving' = TRUE
            /\ UNCHANGED <<records, isLoadingRecords, extractedData, uploadedImage,
                           isProcessing, ocrTimers>>

\* handleSelectRelease, called when the user confirms "Add" for a release
HandleSelectRelease(t, release) ==
    /\ Issue(t, "select", "create", ForeignId,
             Spread(VinylDataOf(release), [imageUrl |-> CoverImageUrl(release)]))
    /\ isSaving' = TRUE
    /\ UNCHANGED <<records, isLoadingRecords, extractedData, uploadedImage,
                   isProcessing, ocrTimers>>

\* handleDeleteRecord, called when the user confirms "Delete" for a record shown
DisplayedIds ==
    IF IsArray(records) THEN {records.items[i].id : i \in 1..Len(records.items)} ELSE {}
HandleDeleteRecord(t, id) ==
    /\ Issue(t, "delete", "delete", id, NoArg)
    /\ UNCHANGED appVars

NextApp ==
    \/ \E img \in ImageInputs : HandleImageUpload(img) /\ UNCHANGED lookupVars
    \/ OcrTimerFires /\ UNCHANGED lookupVars
    \/ HandleReset /\ UNCHANGED lookupVars
    \/ \E d \in DataInputs : HandleDataUpdate(d) /\ UNCHANGED lookupVars
    \/ \E t \in TaskIds : LoadRecords(t) /\ UNCHANGED lookupVars
    \/ \E t \in TaskIds : HandleSaveRecord(t) /\ UNCHANGED lookupVars
    \/ \E t \in TaskIds, r \in Releases : HandleSelectRelease(t, r) /\ UNCHANGED lookupVars
    \/ \E t \in TaskIds, id \in DisplayedIds : HandleDeleteRecord(t, id) /\ UNCHANGED lookupVars
    \/ \E t \in TaskIds, ok \in BOOLEAN : GetRecordsRead(t, ok) /\ UNCHANGED lookupVars
    \/ \E t \in TaskIds, ok \in BOOLEAN, now \in Times, sfx \in RandomSuffixes :
            CreateRecordRead(t, ok, now, sfx) /\ UNCHANGED lookupVars
    \/ \E t \in TaskIds, ok \in BOOLEAN : DeleteRecordRead(t, ok) /\ UNCHANGED lookupVars
    \/ \E t \in TaskIds, ok \in BOOLEAN : SaveRecordsDone(t, ok) /\ UNCHANGED lookupVars

SpecApp == InitApp /\ [][NextApp]_vars

\* ========================================================== Discogs client
\* What a rejected promise carries: an Error object. name is the constructor's
\* name, message the text, kept as the parts the template string joins.
JSError(name, message) == [name |-> name, message |-> message]
\* request: throw new Error('Discogs API not configured. ...')
ConfigurationError ==
    JSError("Error",
            <<"Discogs API not configured. Please provide authentication credentials.">>)
\* request: throw new Error(`Discogs API error: ${status} ${statusText}. ${message || ''}`)
HttpStatusErrorMutantGeneric(status, statusText, errorData) ==
    JSError("Error", <<"Failed to fetch data from Discogs API">>)
HttpStatusError(status, statusText, errorData) ==
    JSError("Error",
            <<"Discogs API error:", status, statusText, OrElse(Get(errorData, "message"), "")>>)
\* request: throw new Error('Failed to fetch data from Discogs API')
FetchFailedError == JSError("Error", <<"Failed to fetch data from Discogs API">>)
\* what fetch rejects with when no response arrives
NetworkError == JSError("TypeError", <<"Network request failed">>)
\* what response.json() rejects with when the body is not JSON
JsonSyntaxError == JSError("SyntaxError", <<"JSON Parse error">>)
\* api.ts: throw new Error('Record not found') / new Error('Failed to save data')
RecordNotFoundError == JSError("Error", <<"Record not found">>)
SaveFailedError == JSError("Error", <<"Failed to save data">>)

\* page.toString(), perPage.toString()
NumberToString(n) == CASE n = 1 -> "1" [] n = 2 -> "2" [] n = 20 -> "20"

\* isConfigured(): !!this.token
IsConfiguredMutantAlways(tok) == TRUE
IsConfigured(tok) == ~Falsy(tok)

\* constructor: process.env.EXPO_PUBLIC_DISCOGS_TOKEN || null
EnvTokens == {Undefined, "", "env-token"}
Constructed(env) == OrElse(env, Null)
\* arguments of setToken
TokenInputs == {"", "my-token"}

\* headers that carry the token the client was first given
GetAuthHeadersMutantFirstToken(tok) ==
    [ContentType |-> "application/json", UserAgent |-> "VinylCollectionApp/1.0",
     Authorization |-> <<"Discogs token=", "env-token">>]
\* getAuthHeaders()
GetAuthHeaders(tok) ==
    LET headers == [ContentType |-> "application/json",
                    UserAgent |-> "VinylCollectionApp/1.0"]
    IN  IF ~Falsy(tok)
        THEN Spread(headers, [Authorization |-> <<"Discogs token=", tok>>])
        ELSE headers

\* An optional argument: the empty tuple when the caller leaves it out.
LeftOut == <<>>
Given(v) == <<v>>
DefaultTo(arg, d) == IF arg = LeftOut THEN d ELSE arg[1]

\* The endpoint and the query parameters each public method hands to request.
\* search(query, type, page = 1, perPage = 20)
Search(query, type, page, perPage) ==
    LET params == [q |-> query,
                   page |-> NumberToString(DefaultTo(page, 1)),
                   per_page |-> NumberToString(DefaultTo(perPage, 20))]
    IN  [endpoint |-> <<"/database/search">>,
         params |-> IF type # LeftOut /\ ~Falsy(type[1])
                    THEN Spread(params, [type |-> type[1]]) ELSE params]
\* searchRelease(artist, album, page = 1)
SearchRelease(artist, album, page) ==
    Search(<<artist, " ", album>>, Given("release"), Given(DefaultTo(page, 1)), LeftOut)
\* getRelease(releaseId)
GetRelease(releaseId) == [endpoint |-> <<"/releases/", releaseId>>, params |-> NoObject]
\* getMasterRelease(masterId)
GetMasterRelease(masterId) == [endpoint |-> <<"/masters/", masterId>>, params |-> NoObject]
\* searchByBarcode(barcode)
SearchByBarcode(barcode) ==
    [endpoint |-> <<"/database/search">>,
     params |-> [barcode |-> barcode, type |-> "release"]]
\* searchByCatalogNumber(catno, page = 1)
SearchByCatalogNumber(catno, page) ==
    [endpoint |-> <<"/database/search">>,
     params |-> [catno |-> catno, type |-> "release",
                 page |-> NumberToString(DefaultTo(page, 1))]]

LookupOps ==
    {"search", "searchRelease", "getRelease", "getMasterRelease",
     "searchByBarcode", "searchByCatalogNumber"}
\* The calls made on the client (bounded): one per public method.
LookupCalls ==
    [ search                |-> Search("Kind of Blue", LeftOut, LeftOut, LeftOut),
      searchRelease         |-> SearchRelease("Miles Davis", "Kind of Blue", LeftOut),
      getRelease            |-> GetRelease("1"),
      getMasterRelease      |-> GetMasterRelease("1"),
      searchByBarcode       |-> SearchByBarcode("0074646493526"),
      searchByCatalogNumber |-> SearchByCatalogNumber("CL 1355", Given(2)) ]

\* ---------------------------------------------------------------- responses
\* What the server answers (bounded): the status line of the response
HttpResponses ==
    { [status |-> 200, statusText |-> "OK"],
      [status |-> 404, statusText |-> "Not Found"],
      [status |-> 500, statusText |-> "Internal Server Error"] }
\* response.ok
ResponseOk(response) == response.status \in 200..299
\* a value thrown that is not an Error object
NotAnError == [thrown |-> "aborted"]
\* error instanceof Error
IsErrorInstance(e) == "name" \in DOMAIN e
\* How the promise of fetch settles: with a response, or rejected.
FetchOutcomes ==
    {[settled |-> "resolved", response |-> r] : r \in HttpResponses}
    \cup {[settled |-> "rejected", reason |-> e] : e \in {NetworkError, NotAnError}}
\* How response.json() settles: the body parses to data, or it is not JSON.
Unparseable == [parsed |-> FALSE]
Parsed(data) == [parsed |-> TRUE, data |-> data]
\* bodies of a response with an error status
ErrorBodies == {Parsed([message |-> "Release not found."]), Unparseable}
\* one result of /database/search
SearchResults == { [id |-> "1", type |-> "release", title |-> "Miles Davis - Kind of Blue"] }
\* what /releases/{id} answers (bounded): DiscogsReleaseDetails
ReleaseDetails ==
    Releases \cup {
      [ id |-> "3", title |-> "Blue Train",
        artists |-> <<[name |-> "John Coltrane"], [name |-> "Lee Morgan"]>>,
        labels |-> <<[name |-> "Blue Note", catno |-> "BLP 1577"],
                     [name |-> "Liberty", catno |-> "LST 81577"]>>,
        formats |-> <<[name |-> "Vinyl"], [name |-> "Box Set"]>>,
        identifiers |-> <<[type |-> "Barcode", value |-> "0602537714179"]>>,
        images |-> <<[uri |-> "https://img/3", uri150 |-> "https://img/3-150"],
                     [uri |-> "https://img/3b", uri150 |-> "https://img/3b-150"]>>,
        country |-> "US", styles |-> "Hard Bop", uri |-> "https://discogs/3" ] }
\* bodies of a response with a success status
SuccessBodies(op) ==
    IF op \in {"getRelease", "getMasterRelease"}
    THEN {Parsed(r) : r \in ReleaseDetails} \cup {Unparseable}
    ELSE {Parsed([results |-> <<r>>]) : r \in SearchResults}
         \cup {Parsed([pagination |-> "none"]), Unparseable}

\* What request does with the settled fetch and the settled response.json():
\* the value it returns (res = "ok") or the error it throws, res naming the
\* failure: "transport", "http", "parse".
RequestOutcomeMutantDefaults(outcome, body) ==
    [res |-> "ok", value |-> [results |-> <<>>]]
RequestOutcome(outcome, body) ==
    IF outcome.settled = "rejected"
    THEN [res |-> "transport",
          value |-> IF IsErrorInstance(outcome.reason) THEN outcome.reason
                    ELSE FetchFailedError]
    ELSE IF ~ResponseOk(outcome.response)
    THEN [res |-> "http",
          value |-> HttpStatusError(outcome.response.status, outcome.response.statusText,
                                    IF body.parsed THEN body.data ELSE NoObject)]
    ELSE IF body.parsed THEN [res |-> "ok", value |-> body.data]
    ELSE [res |-> "parse", value |-> JsonSyntaxError]

\* ------------------------------------------------------------ request steps
clientRest ==
    <<slot, clock, records, isSaving, isLoadingRecords, extractedData, uploadedImage,
      isProcessing, ocrTimers, assigned, abs, overlap, ioFailed, clockSetBack>>
screenVars == <<isConfigured, isSearching, results, prompts>>

\* setToken(token)
SetToken(tok) ==
    /\ token' = tok
    /\ UNCHANGED <<httpRequests, screenVars, tasks, last, nCalls, clientRest>>

\* request(endpoint, params) up to its first await: the configuration test, the
\* URL, and the call of fetch; handler h awaits the public method op.
Request(t, h, op, req) ==
    /\ httpRequests < MaxRequests
    /\ FreeTask(t)
    /\ IF ~IsConfigured(token)
       THEN /\ last' = [op |-> op, id |-> ForeignId, res |-> "config",
                        rec |-> NoRecord, value |-> ConfigurationError]
            /\ UNCHANGED <<tasks, httpRequests>>
       ELSE /\ tasks' = [tasks EXCEPT ![t] =
                           [h |-> h, op |-> op, pc |-> "fetch", id |-> ForeignId,
                            arg |-> [method |-> "GET",
                                     url |-> [base |-> "https://api.discogs.com",
                                              endpoint |-> req.endpoint,
                                              searchParams |-> req.params],
                                     headers |-> GetAuthHeaders(token)],
                            local |-> <<>>, rec |-> NoRecord]]
            /\ httpRequests' = httpRequests + 1
            /\ UNCHANGED last
    /\ UNCHANGED <<token, nCalls, clientRest>>

\* response.results || []
ResultsOrEmpty(response) ==
    IF "results" \in DOMAIN response THEN response.results ELSE <<>>

\* What the handler that awaited the method does when it settles.
\*   handleSearch: setResults, (catch,) finally setIsSearching(false)
\*   handleSelectResult: the 'Add to Collection' alert, or catch
ScreenResume(h, out) ==
    IF h = "handleSearch"
    THEN /\ isSearching' = FALSE
         /\ results' = IF out.res = "ok" THEN ResultsOrEmpty(out.value) ELSE results
         /\ UNCHANGED <<isConfigured, prompts>>
    ELSE IF h = "handleSelectResult"
    THEN /\ prompts' = IF out.res = "ok" THEN prompts \cup {out.value} ELSE prompts
         /\ UNCHANGED <<isConfigured, isSearching, results>>
    ELSE UNCHANGED screenVars

\* request returns or throws: the method called settles the same way
LookupSettle(t, out) ==
    /\ last' = [op |-> tasks[t].op, id |-> ForeignId, res |-> out.res,
                rec |-> NoRecord, value |-> out.value]
    /\ tasks' = [tasks EXCEPT ![t] = IdleTask]
    /\ ScreenResume(tasks[t].h, out)
    /\ UNCHANGED <<token, httpRequests, nCalls, clientRest>>

\* a call of one of the public methods by a caller of the client
CallLookup(t, op) ==
    /\ Request(t, "api", op, LookupCalls[op])
    /\ UNCHANGED screenVars

\* a client that fetches again when fetch rejected
FetchDoneMutantRetries(t, outcome) ==
    /\ tasks[t].pc = "fetch"
    /\ IF outcome.settled = "rejected"
       THEN IF httpRequests < MaxRequests
            THEN /\ httpRequests' = httpRequests + 1
                 /\ UNCHANGED <<tasks, last, token, screenVars, nCalls, clientRest>>
            ELSE LookupSettle(t, RequestOutcome(outcome, Unparseable))
       ELSE /\ tasks' = [tasks EXCEPT
                            ![t].pc = IF ResponseOk(outcome.response) THEN "json" ELSE "errjson",
                            ![t].local = outcome]
            /\ UNCHANGED <<last, token, httpRequests, screenVars, nCalls, clientRest>>

\* resumed after await fetch(...)
FetchDone(t, outcome) ==
    /\ tasks[t].pc = "fetch"
    /\ IF outcome.settled = "rejected"
       THEN LookupSettle(t, RequestOutcome(outcome, Unparseable))
       ELSE /\ tasks' = [tasks EXCEPT
                            ![t].pc = IF ResponseOk(outcome.response) THEN "json" ELSE "errjson",
                            ![t].local = outcome]
            /\ UNCHANGED <<last, token, httpRequests, screenVars, nCalls, clientRest>>

\* resumed after await response.json(), of the error branch or of the return
JsonDone(t, body) ==
    /\ tasks[t].pc \in {"json", "errjson"}
    /\ body \in (IF tasks[t].pc = "json" THEN SuccessBodies(tasks[t].op) ELSE ErrorBodies)
    /\ LookupSettle(t, RequestOutcome(tasks[t].local, body))

AllBodies == ErrorBodies \cup UNION {SuccessBodies(op) : op \in LookupOps}

\* The client after construction, used by its callers directly.
InitClient ==
    /\ token \in {Constructed(env) : env \in EnvTokens}
    /\ httpRequests = 0
    /\ isConfigured = FALSE
    /\ isSearching = FALSE
    /\ results = <<>>
    /\ prompts = {}
    /\ slot = StoredText("missing")
    /\ clock = 0
    /\ tasks = [t \in TaskIds |-> IdleTask]
    /\ last = NoCall
    /\ nCalls = 0
    /\ records = EmptyArray
    /\ isSaving = FALSE
    /\ isLoadingRecords = FALSE
    /\ extractedData = NoData
    /\ uploadedImage = Null
    /\ isProcessing = FALSE
    /\ ocrTimers = 0
    /\ assigned = {}
    /\ abs = <<>>
    /\ overlap = FALSE
    /\ ioFailed = FALSE
    /\ clockSetBack = FALSE

NextClient ==
    \/ \E tok \in TokenInputs : SetToken(tok)
    \/ \E t \in TaskIds, op \in LookupOps : CallLookup(t, op)
    \/ \E t \in TaskIds, outcome \in FetchOutcomes : FetchDone(t, outcome)
    \/ \E t \in TaskIds, body \in AllBodies : JsonDone(t, body)

SpecClient == InitClient /\ [][NextClient]_vars

\* ===================================================== DiscogsSearchScreen
\* Text typed into the search field (bounded), and searchQuery.trim()
SearchInputs == {"   ", " Kind of Blue "}
Trim(text) == CASE text = "   " -> "" [] text = " Kind of Blue " -> "Kind of Blue"

\* handleSearch
HandleSearch(t, searchQuery) ==
    IF ~isConfigured \/ Trim(searchQuery) = ""
    THEN UNCHANGED vars
    ELSE /\ Request(t, "handleSearch", "search",
                    Search(Trim(searchQuery), Given("release"), LeftOut, LeftOut))
         /\ isSearching' = IsConfigured(token)
         /\ results' = <<>>
         /\ UNCHANGED <<isConfigured, prompts>>

\* handleSelectResult, called when the user taps a result of the list shown
HandleSelectResult(t, result) ==
    /\ Request(t, "handleSelectResult", "getRelease", GetRelease(result.id))
    /\ UNCHANGED screenVars

\* the 'Add' button of the alert: onSelectRelease(releaseDetails), which App
\* binds to handleSelectRelease
AddPressed(t, release) ==
    /\ release \in prompts
    /\ prompts' = prompts \ {release}
    /\ HandleSelectRelease(t, release)
    /\ UNCHANGED <<token, httpRequests, isConfigured, isSearching, results>>

\* the 'Cancel' button of the alert
CancelPressed(release) ==
    /\ release \in prompts
    /\ prompts' = prompts \ {release}
    /\ UNCHANGED <<token, httpRequests, isConfigured, isSearching, results,
                   tasks, last, nCalls, clientRest>>

\* App and the search screen after mount: loadRecords() awaits getRecords(),
\* and the screen has read discogsAPI.isConfigured() into its state.
InitSearch ==
    /\ token \in {Constructed(env) : env \in EnvTokens}
    /\ httpRequests = 0
    /\ isConfigured = IsConfigured(token)
    /\ isSearching = FALSE
    /\ results = <<>>
    /\ prompts = {}
    /\ slot \in {StoredText(k) : k \in SlotKinds \ {"array"}}
    /\ clock = 0
    /\ tasks = [t \in TaskIds |->
                  IF t = 1 THEN [IdleTask EXCEPT !.h = "load", !.op = "list", !.pc = "read"]
                  ELSE IdleTask]
    /\ last = NoCall
    /\ nCalls = 0
    /\ records = EmptyArray
    /\ isSaving = FALSE
    /\ isLoadingRecords = TRUE
    /\ extractedData = NoData
    /\ uploadedImage = Null
    /\ isProcessing = FALSE
    /\ ocrTimers = 0
    /\ assigned = {}
    /\ abs = <<>>
    /\ overlap = FALSE
    /\ ioFailed = FALSE
    /\ clockSetBack = FALSE

ShownResults == {results[i] : i \in 1..Len(results)}

NextSearch ==
    \/ \E t \in TaskIds, q \in SearchInputs : HandleSearch(t, q)
    \/ \E t \in TaskIds, r \in ShownResults : HandleSelectResult(t, r)
    \/ \E t \in TaskIds, r \in prompts : AddPressed(t, r)
    \/ \E r \in prompts : CancelPressed(r)
    \/ \E t \in TaskIds, outcome \in FetchOutcomes : FetchDone(t, outcome)
    \/ \E t \in TaskIds, body \in AllBodies : JsonDone(t, body)
    \/ \E t \in TaskIds, ok \in BOOLEAN : GetRecordsRead(t, ok) /\ UNCHANGED lookupVars
    \/ \E t \in TaskIds, ok \in BOOLEAN, now \in Times, sfx \in RandomSuffixes :
            CreateRecordRead(t, ok, now, sfx) /\ UNCHANGED lookupVars
    \/ \E t \in TaskIds, ok \in BOOLEAN : SaveRecordsDone(t, ok) /\ UNCHANGED lookupVars

SpecSearch == InitSearch /\ [][NextSearch]_vars

\* ================================================================== claims
\* the step in which the api call `op` of task t resolves with a value
Returned(t, op) ==
    /\ tasks[t].op = op /\ tasks[t].pc = "write"
    /\ tasks'[t].pc # "write"
    /\ last'.res = "ok"
\* the step in which createRecord / updateRecord of task t builds its record
Builds(t, op) ==
    tasks[t].op = op /\ tasks[t].pc = "read" /\ tasks'[t].pc = "write"
\* getRecords() when the read succeeds
Listed(stored) == GetStoredRecords(stored, TRUE).items
IdsOf(items) == {items[i].id : i \in 1..Len(items)}
HoldsSequence(stored) == stored.kind \notin {"jsonNull", "jsonObject"}

\* C1 (round trip): after createRecord(x) returns r, getRecords() holds exactly
\* one record with id r.id, r's mandatory fields are x's with absent ones
\* replaced by "" and imageUrl by null when absent, the listed record is r, and
\* getRecord(r.id) returns that record. Stated for callers that do not overlap
\* their mutations and a backing store that never fails.
C1_RoundTrip ==
    [][\A t \in TaskIds : (Returned(t, "create") /\ ~overlap /\ ~ioFailed') =>
        LET x == tasks[t].arg
            r == last'.rec
            listed == Listed(slot')
            got == GetRecord(GetStoredRecords(slot', TRUE), r.id)
        IN  /\ Cardinality({i \in 1..Len(listed) : listed[i].id = r.id}) = 1
            /\ \A f \in MandatoryFields :
                  r[f] = (IF Get(x, f) = Undefined THEN "" ELSE x[f])
            /\ Get(x, "imageUrl") = Undefined => r.imageUrl = Null
            /\ got.res = "ok"
            /\ got.rec = DefinedPart(r)]_vars

NoTwoRecordsShareAnId(stored) ==
    stored.kind = "array" =>
        \A i, j \in 1..Len(stored.items) :
            i # j => stored.items[i].id # stored.items[j].id
\* C2 (id uniqueness): the id createRecord assigns differs from every id an
\* earlier createRecord assigned, and the slot never holds two records with
\* the same id.
C2_IdsUnique ==
    [][/\ \A t \in TaskIds : Builds(t, "create") => tasks'[t].rec.id \notin assigned
       /\ NoTwoRecordsShareAnId(slot')]_vars

\* C3 (create keeps the prior records): after createRecord returns, whatever
\* the read gave, the slot holds the sequence persisted before, unchanged and
\* in order, followed by the new record. Stated for callers that do not
\* overlap their mutations.
C3_CreateAppends ==
    [][\A t \in TaskIds : (Returned(t, "create") /\ ~overlap) =>
        slot' = StoredArray(Append(Listed(slot), DefinedPart(last'.rec)))]_vars

\* C4 (no lost update under serialized callers): while no mutation was issued
\* during another one and no read or write failed, the slot holds the result
\* of applying the settled calls one after another to the initial sequence.
C4_NoLostUpdate ==
    (~overlap /\ ~ioFailed /\ HoldsSequence(slot)) =>
        IF slot.kind = "array" THEN slot.items = abs ELSE abs = <<>>
C4_Witness ==
    /\ ~overlap /\ ~ioFailed
    /\ last.op = "update" /\ last.res = "ok"
    /\ slot.kind = "array" /\ Len(slot.items) = 1
    /\ \A t \in TaskIds : tasks[t].pc = "idle"

\* C5 (App serializes its Store writes): at no time are two mutations issued
\* by App handlers in flight together.
C5_AppWritesSerialized ==
    Cardinality({t \in TaskIds :
                    tasks[t].h \in {"save", "select", "delete"} /\ MutationInFlight(t)}) <= 1

\* C6 (update merge): updateRecord on an existing record builds, returns and
\* persists a record that has the patch value in every field the patch names
\* and the previous value in every other field; when Date.now() never went
\* backwards its updatedAt exceeds the previous one by atLeast or more.
UpdateMerges(atLeast) ==
    /\ \A t \in TaskIds : Builds(t, "update") =>
          LET patch == tasks[t].arg
              old == Listed(slot)[FindIndex(Listed(slot), tasks[t].id)]
              new == tasks'[t].rec
          IN  /\ \A f \in DOMAIN patch : Get(new, f) = patch[f]
              /\ \A f \in ((DOMAIN old) \cup (DOMAIN new)) \ ((DOMAIN patch) \cup {"updatedAt"}) :
                    f \in DOMAIN old /\ f \in DOMAIN new /\ new[f] = old[f]
              /\ ~clockSetBack' => new.updatedAt >= old.updatedAt + atLeast
    /\ \A t \in TaskIds : Returned(t, "update") =>
          LET patch == tasks[t].arg
              i == FindIndex(Listed(slot'), tasks[t].id)
          IN  /\ last'.rec = tasks[t].rec
              /\ i > 0
              /\ \A f \in DOMAIN patch : Get(Listed(slot')[i], f) = patch[f]
              /\ \A f \in (DOMAIN tasks[t].rec) \ (DOMAIN patch) :
                    Get(Listed(slot')[i], f) = tasks[t].rec[f]
\* C6 as amended: updatedAt is not smaller than before
C6_UpdateMerge == [][UpdateMerges(0)]_vars
\* C6 as stated: updatedAt is strictly greater than before (here for callers
\* that do not overlap their mutations and a backing store that never fails)
C6_UpdateMergeStrictlyLater == [][(~overlap' /\ ~ioFailed') => UpdateMerges(1)]_vars
C6_Witness ==
    /\ last.op = "update" /\ last.res = "ok" /\ ~clockSetBack
    /\ Get(last.rec, "artistName") = "A"
    /\ Get(last.rec, "year") = "1999"
    /\ slot.kind = "array" /\ Len(slot.items) = 1
    /\ Get(slot.items[1], "artistName") = "A"
    /\ Get(slot.items[1], "year") = "1999"

\* C7 (timestamps): createRecord builds a record with createdAt = updatedAt;
\* updateRecord keeps the record's createdAt and does not decrease its
\* updatedAt. Stated for callers that do not overlap their mutations and a
\* backing store that never fails.
C7_Timestamps ==
    [][(~overlap' /\ ~ioFailed') =>
       /\ \A t \in TaskIds : Builds(t, "create") =>
              tasks'[t].rec.createdAt = tasks'[t].rec.updatedAt
       /\ \A t \in TaskIds : Builds(t, "update") =>
              LET old == Listed(slot)[FindIndex(Listed(slot), tasks[t].id)]
                  new == tasks'[t].rec
              IN  /\ new.createdAt = old.createdAt
                  /\ new.updatedAt >= old.updatedAt]_vars

\* C8 (mandatory fields never absent): every record in the slot has its four
\* mandatory fields present as strings and imageUrl present as a string or null.
\* Stated for callers that do not overlap their mutations and a backing store
\* that never fails.
IsString(v) == v \notin {Undefined, Null}
C8_MandatoryPresent ==
    (slot.kind = "array" /\ ~overlap /\ ~ioFailed) =>
        \A i \in 1..Len(slot.items) :
            /\ \A f \in MandatoryFields :
                  f \in DOMAIN slot.items[i] /\ IsString(slot.items[i][f])
            /\ "imageUrl" \in DOMAIN slot.items[i]
            /\ slot.items[i].imageUrl # Undefined

\* C9 (delete idempotence): a deleteRecord(id) that returns when the collection
\* held no record of that id, as after an earlier deleteRecord(id), leaves the
\* collection as it was. Stated for callers that do not overlap their mutations.
C9_DeleteAbsentKeepsCollection ==
    [][\A t \in TaskIds :
          (Returned(t, "delete") /\ ~overlap /\ tasks[t].id \notin IdsOf(Listed(slot))) =>
              Listed(slot') = Listed(slot)]_vars

\* C10 (delete removes only its target): after deleteRecord(id) returns,
\* whatever the read gave, the slot holds the records persisted before whose id
\* differs from id, unchanged and in order, and getRecord(id) raises not found.
\* Stated for callers that do not overlap their mutations.
C10_DeleteRemovesOnlyTarget ==
    [][\A t \in TaskIds : (Returned(t, "delete") /\ ~overlap) =>
          /\ slot' = StoredArray(SelectSeq(Listed(slot), LAMBDA r : r.id # tasks[t].id))
          /\ GetRecord(GetStoredRecords(slot', TRUE), tasks[t].id).res = "notfound"]_vars

\* C11 (fail-open read): a getRecords() that finds the slot missing, empty or
\* holding a string that is not JSON, or whose read of the backing store fails,
\* resolves (does not raise) with the empty sequence; a failed read and a failed
\* parse give the same value.
FailsOpen(stored) == stored.kind \in {"missing", "empty", "garbage"}
C11_FailOpenRead ==
    [][\A t \in TaskIds, readOk \in BOOLEAN :
          (GetRecordsRead(t, readOk) /\ (~readOk \/ FailsOpen(slot))) =>
              /\ last'.op = "list" /\ last'.res = "ok"
              /\ last'.value = EmptyArray
              /\ GetStoredRecords(slot, FALSE) = GetStoredRecords(StoredText("garbage"), TRUE)]_vars
C11_Witness ==
    /\ last.op = "list" /\ last.res = "ok" /\ last.value = EmptyArray
    /\ ioFailed
    /\ slot.kind = "array" /\ Len(slot.items) = 1

\* C12 (well-formed collection): whatever the slot holds, valid JSON that is
\* not an array included, getRecords() resolves with a sequence of records and
\* no api call fails on the shape of the value it read.
C12_WellFormed ==
    /\ last.op = "list" => IsArray(last.value)
    /\ last.res # "typeerror"

\* C13 (update of an absent id): an updateRecord(id, patch) that runs when the
\* slot holds no record of that id rejects with 'Record not found', goes on to
\* no write of the backing store, and leaves the slot as it was.
C13_UpdateAbsentNotFound ==
    [][\A t \in TaskIds :
          (/\ tasks[t].op = "update" /\ tasks[t].pc = "read" /\ tasks'[t].pc # "read"
           /\ tasks[t].id \notin IdsOf(Listed(slot))) =>
              /\ last'.op = "update" /\ last'.res = "notfound"
              /\ tasks'[t].pc = "idle"
              /\ slot' = slot]_vars

\* C14 (write failure): when the write of the backing store fails in
\* createRecord, updateRecord or deleteRecord, the call rejects with the
\* persistence error, returns no record, and the slot holds what it held
\* before, so that getRecords() gives the sequence it gave before.
C14_WriteFailure ==
    [][\A t \in TaskIds :
          SaveRecordsDone(t, FALSE) =>
              /\ last'.op = tasks[t].op /\ last'.op \in Mutations
              /\ last'.res = "savefail"
              /\ last'.rec = NoRecord
              /\ slot' = slot
              /\ GetStoredRecords(slot', TRUE) = GetStoredRecords(slot, TRUE)]_vars
C14_Witness ==
    /\ last.op = "create" /\ last.res = "savefail" /\ last.rec = NoRecord
    /\ slot.kind = "array" /\ Len(slot.items) = 1
    /\ \A t \in TaskIds : tasks[t].pc = "idle"

\* C15 (lookup configuration gate): while the client holds no token (null or
\* the empty string), a call of any of the six lookup methods rejects with the
\* configuration error and the number of HTTP requests issued stays as it was;
\* a request is issued only while a non-empty token is held.
HoldsNoToken == token \in {Null, Undefined, ""}
C15_ConfigurationGate ==
    [][/\ HoldsNoToken => httpRequests' = httpRequests
       /\ \A t \in TaskIds, op \in LookupOps :
             (HoldsNoToken /\ CallLookup(t, op)) =>
                 /\ last'.op = op /\ last'.res = "config"
                 /\ last'.value = ConfigurationError
                 /\ \A u \in TaskIds : tasks'[u].pc # "fetch" \/ tasks[u].pc = "fetch"
       /\ httpRequests' # httpRequests =>
             /\ httpRequests' = httpRequests + 1
             /\ token \in {"env-token", "my-token"}]_vars
C15_Witness ==
    /\ token = "" /\ httpRequests = 1
    /\ last.op = "searchByBarcode" /\ last.res = "config"
    /\ \A t \in TaskIds : tasks[t].pc = "idle"

\* C16 (every lookup failure path raises): a lookup method resolves with a
\* value only when the response has a success status and its body parses, and
\* the value is then the parsed body; when fetch rejects, when the status is
\* not a success status (the error body parsing or not), and when the body of
\* a success response does not parse, it rejects with an error.
C16_FailuresRaise ==
    [][/\ \A t \in TaskIds, outcome \in FetchOutcomes :
             (/\ tasks[t].pc = "fetch" /\ tasks'[t].pc = "idle"
              /\ outcome.settled = "rejected" /\ FetchDone(t, outcome)) =>
                 /\ last'.op = tasks[t].op /\ last'.res = "transport"
                 /\ IsErrorInstance(last'.value)
       /\ \A t \in TaskIds :
             (tasks[t].pc \in {"json", "errjson"} /\ tasks'[t].pc = "idle") =>
                \A body \in (IF tasks[t].pc = "json" THEN SuccessBodies(tasks[t].op)
                              ELSE ErrorBodies) :
                   JsonDone(t, body) =>
                      LET response == tasks[t].local.response
                      IN  /\ last'.op = tasks[t].op
                          /\ (last'.res = "ok") = (ResponseOk(response) /\ body.parsed)
                          /\ last'.res = "ok" => last'.value = body.data
                          /\ last'.res # "ok" => IsErrorInstance(last'.value)
                          /\ ~ResponseOk(response) =>
                                /\ last'.res = "http"
                                /\ last'.value.message[2] = response.status
                          /\ (ResponseOk(response) /\ ~body.parsed) => last'.res = "parse"]_vars
C16_Witness ==
    /\ last.op = "search" /\ last.res = "http"
    /\ last.value = HttpStatusError(500, "Internal Server Error", NoObject)
    /\ httpRequests = 2

ErrorKind(e) == e.name
FailureKinds == {"config", "http", "transport", "notfound", "savefail"}
ThrownFor(failure) ==
    CASE failure = "config" -> ConfigurationError
      [] failure = "http" -> HttpStatusError(404, "Not Found", NoObject)
      [] failure = "transport" -> FetchFailedError
      [] failure = "notfound" -> RecordNotFoundError
      [] failure = "savefail" -> SaveFailedError
C18_ErrorsDistinctByKind ==
    last.res \in {"config", "http", "transport"} =>
        /\ ErrorKind(last.value) # "Error"
        /\ \A other \in FailureKinds \ {last.res} :
              ErrorKind(last.value) # ErrorKind(ThrownFor(other))

\* C19 (the view follows the persisted collection): when a Store mutation
\* issued by an App handler returns, the handler goes on to re-read the
\* collection; and once no Store operation and no reload is pending, the
\* records state holds the sequence persisted in the slot, however the
\* mutations and the reloads (pull-to-refresh included) interleaved. Stated for
\* a backing store whose reads and writes do not fail.
Quiet == \A t \in TaskIds : tasks[t].pc = "idle"
Elements(release, f) == IF f \in DOMAIN release THEN release[f] ELSE <<>>
MatrixRunoutValues(release) ==
    SelectSeq(Elements(release, "identifiers"), LAMBDA i : i.type = "Matrix / Runout")
Mapped(release) ==
    LET artists == Elements(release, "artists")
        labels == Elements(release, "labels")
        formats == Elements(release, "formats")
        images == Elements(release, "images")
        matrix == MatrixRunoutValues(release)
    IN  [ artistName   |-> IF artists = <<>> THEN "" ELSE artists[1].name,
          albumName    |-> release.title,
          serialNumber |-> IF labels = <<>> THEN "" ELSE labels[1].catno,
          matrixRunout |-> IF matrix = <<>> THEN "" ELSE matrix[1].value,
          label        |-> IF labels = <<>> THEN Undefined ELSE labels[1].name,
          format       |-> IF formats = <<>> THEN Undefined ELSE formats[1].name,
          discogsId    |-> release.id,
          discogsUrl   |-> Get(release, "uri"),
          imageUrl     |-> IF images = <<>> THEN Undefined
                           ELSE IF images[1].uri # "" THEN images[1].uri
                           ELSE IF images[1].uri150 # "" THEN images[1].uri150
                           ELSE Undefined ]
CreatesInFlight(ts) == {t \in TaskIds : ts[t].op = "create" /\ ts[t].pc \in {"read", "write"}}
C20_ReleaseMapping ==
    [][/\ \A t \in TaskIds, release \in ReleaseDetails :
             HandleSelectRelease(t, release) =>
                 /\ tasks'[t].h = "select" /\ tasks'[t].op = "create"
                 /\ \A f \in DOMAIN Mapped(release) :
                       Get(tasks'[t].arg, f) = Mapped(release)[f]
                 /\ CreatesInFlight(tasks') = CreatesInFlight(tasks) \cup {t}
                 /\ t \notin CreatesInFlight(tasks)
       /\ \A t \in TaskIds :
             (tasks[t].h = "select" /\ Returned(t, "create")) =>
                 LET x == tasks[t].arg
                     r == last'.rec
                 IN  /\ \A f \in (DOMAIN x) \ {"imageUrl"} : Get(r, f) = x[f]
                     /\ r.imageUrl = (IF x.imageUrl = Undefined THEN Null ELSE x.imageUrl)
                     /\ Listed(slot') # <<>>
                     /\ Listed(slot')[Len(Listed(slot'))] = DefinedPart(r)
                     /\ tasks'[t].op # "create"]_vars
C20_Witness ==
    /\ last.op = "create" /\ last.res = "ok"
    /\ last.rec.artistName = "Miles Davis"
    /\ last.rec.albumName = "Miles Davis - Kind of Blue"
    /\ last.rec.serialNumber = "CL 1355"
    /\ last.rec.matrixRunout = "XLP 47324"
    /\ last.rec.label = "Columbia"
    /\ last.rec.imageUrl = "https://img/150"
    /\ slot.kind = "array" /\ Len(slot.items) = 1
    /\ slot.items[1].serialNumber = "CL 1355"

\* C21 (each lookup call is one independent request): a call of a lookup
\* method while a token is held issues exactly one request, a GET, and waits
\* for its response: it settles nothing from the result of an earlier call.
\* No other step issues a request: not the step that resumes a call after its
\* fetch rejected or answered, nor the one after the body was read, whether
\* the call then resolves or rejects. The number of requests issued is
\* therefore the number of calls made while a token was held.
C21_OneRequestPerCall ==
    [][/\ \A t \in TaskIds, op \in LookupOps :
             (~HoldsNoToken /\ FreeTask(t) /\ CallLookup(t, op)) =>
                 /\ httpRequests' = httpRequests + 1
                 /\ tasks'[t].op = op /\ tasks'[t].pc = "fetch"
                 /\ tasks'[t].arg.method = "GET"
                 /\ tasks'[t].arg.url.endpoint = LookupCalls[op].endpoint
                 /\ \A u \in TaskIds \ {t} : tasks'[u] = tasks[u]
                 /\ last' = last
       /\ httpRequests' # httpRequests =>
             \E t \in TaskIds, op \in LookupOps : CallLookup(t, op)
       /\ \A t \in TaskIds :
             (tasks[t].pc \in {"fetch", "json", "errjson"} /\ tasks'[t] # tasks[t]) =>
                 /\ httpRequests' = httpRequests
                 /\ tasks'[t].pc \in {"json", "errjson", "idle"}
                 /\ tasks[t].pc \in {"json", "errjson"} => tasks'[t].pc = "idle"]_vars
\* two calls have each issued a request, the one that settled last failed on
\* the status of its response, and nothing is in flight: it was not retried
C21_Witness ==
    /\ httpRequests = 2
    /\ last.op = "getRelease" /\ last.res = "http"
    /\ \A t \in TaskIds : tasks[t].pc = "idle"
    /\ token = "my-token"

\* C25 (Authorization header of every request): a step that issues a request
\* issues a GET whose headers hold Authorization, its value being
\* "Discogs token=" followed by the token the client holds at that step, a
\* non-empty one; a later setToken does not change the headers of a request
\* already issued.
InFlight(t) == tasks[t].pc \in {"fetch", "json", "errjson"}
C25_AuthorizationHeader ==
    [][/\ \A t \in TaskIds :
             (tasks[t].pc # "fetch" /\ tasks'[t].pc = "fetch") =>
                 /\ httpRequests' = httpRequests + 1
                 /\ tasks'[t].arg.method = "GET"
                 /\ "Authorization" \in DOMAIN tasks'[t].arg.headers
                 /\ tasks'[t].arg.headers.Authorization = <<"Discogs token=", token>>
                 /\ token \in {"env-token", "my-token"}
       /\ httpRequests' # httpRequests =>
             \E t \in TaskIds : tasks[t].pc # "fetch" /\ tasks'[t].pc = "fetch"
       /\ \A t \in TaskIds :
             (InFlight(t) /\ InFlight(t)') => tasks'[t].arg = tasks[t].arg]_vars
\* a request issued with the token set by setToken is awaiting its response
\* after the client was given the empty token
C25_Witness ==
    /\ token = ""
    /\ \E t \in TaskIds :
          /\ tasks[t].pc = "fetch"
          /\ tasks[t].arg.headers.Authorization = <<"Discogs token=", "my-token">>
    /\ \E t \in TaskIds :
          /\ tasks[t].pc = "json"
          /\ tasks[t].arg.headers.Authorization = <<"Discogs token=", "env-token">>

\* C22 (lost update under racing writers): a mutation keeps the sequence it
\* built from its own read while other calls write, and its write, when it
\* succeeds, replaces the slot by that sequence and the call resolves, whatever
\* was written since its read. So when the call that resolved last before it
\* was a createRecord whose record the writer did not read, that record is
\* gone from the slot although its call returned it: of two mutations that both
\* read before either wrote, the slot reflects the one that wrote last.
Writes(t) == tasks[t].pc = "write" /\ tasks'[t].pc # "write"
C22_LastWriteWins ==
    [][/\ \A t \in TaskIds :
             (tasks[t].pc = "write" /\ tasks'[t].pc = "write") =>
                 tasks'[t].local = tasks[t].local
       /\ \A t \in TaskIds :
             (Writes(t) /\ SaveRecordsDone(t, TRUE)) =>
                 /\ slot' = JSONStringify(tasks[t].local)
                 /\ last'.res = "ok" /\ last'.op = tasks[t].op
                 /\ \A u \in TaskIds \ {t} : tasks'[u] = tasks[u]
                 /\ (/\ last.op = "create" /\ last.res = "ok"
                     /\ last.rec.id \notin IdsOf(tasks[t].local)) =>
                        last.rec.id \notin IdsOf(slot'.items)]_vars
\* two createRecord calls have both read before either wrote, have both
\* written and both returned their record, the two ids differ, and the slot
\* holds one record: the one of the call that wrote last
C22_Witness ==
    /\ nCalls = 2 /\ overlap /\ ~ioFailed
    /\ Cardinality(assigned) = 2
    /\ \A t \in TaskIds : tasks[t].pc = "idle"
    /\ last.op = "create" /\ last.res = "ok"
    /\ slot.kind = "array" /\ Len(slot.items) = 1
    /\ slot.items[1].id = last.rec.id

\* C23 (frame of updateRecord): the sequence updateRecord(id, patch) builds
\* has as many records as the sequence it read; the first record of that id,
\* the one updated, is at the position it had and has the id and the createdAt
\* it had; every record at another position is as it was read. When the call
\* returns, the slot holds that sequence and the record returned has that id
\* and that createdAt. For callers that do not overlap their mutations the
\* slot before the write is the sequence read, so the write changes neither
\* the number of records, nor the position, id and createdAt of the target,
\* nor any other record.
FrameOf(before, after, id) ==
    LET i == FindIndex(before, id)
    IN  /\ i > 0
        /\ Len(after) = Len(before)
        /\ after[i].id = before[i].id
        /\ after[i].createdAt = before[i].createdAt
        /\ \A j \in (1..Len(before)) \ {i} : after[j] = before[j]
C23_UpdateFrame ==
    [][\A t \in TaskIds :
          /\ Builds(t, "update") =>
                /\ FrameOf(Listed(slot), tasks'[t].local, tasks[t].id)
                /\ tasks'[t].rec = tasks'[t].local[FindIndex(Listed(slot), tasks[t].id)]
          /\ Returned(t, "update") =>
                /\ slot' = JSONStringify(tasks[t].local)
                /\ last'.rec = tasks[t].rec
                /\ \A j \in 1..Len(tasks[t].local) :
                      /\ Listed(slot')[j].id = tasks[t].local[j].id
                      /\ Listed(slot')[j].createdAt = tasks[t].local[j].createdAt
          /\ (Returned(t, "update") /\ ~overlap) =>
                /\ FrameOf(Listed(slot), Listed(slot'), tasks[t].id)
                /\ last'.rec.id = tasks[t].id
                /\ last'.rec.createdAt =
                      Listed(slot)[FindIndex(Listed(slot), tasks[t].id)].createdAt]_vars
\* the first of two records of the same id was updated, at a later time than
\* its creation, in a slot of three records
C23_Witness ==
    /\ ~overlap /\ last.op = "update" /\ last.res = "ok"
    /\ clock = 1
    /\ Len(slot.items) = 3
    /\ slot.items[1].id = slot.items[2].id
    /\ Get(slot.items[1], "year") = "1999"
    /\ Get(slot.items[2], "year") = "1959"

\* C24 (isSaving tracks the saves in flight): isSaving is true while a
\* handleSaveRecord or handleSelectRelease call has not finished (its
\* createRecord or the loadRecords after it is awaited), and false when no
\* such call is in flight.
SaveInFlight == \E t \in TaskIds : tasks[t].h \in {"save", "select"} /\ tasks[t].pc # "idle"
C24_SavingTracksInFlight == isSaving = SaveInFlight

====
